---- MODULE Spec2Model ----
(***************************************************************************)
(* happy-mongoose-timestamps: the blacklist path matcher of                *)
(* src/src/utils/index.js and the plugin of src/src/index.js (with the     *)
(* two other variants of the plugin kept in src/unnamed/part_001).         *)
(*                                                                         *)
(* A JavaScript string is a sequence of one-character strings, so that     *)
(* split('.'), splice(-1, 1) and join('.') are computed, not assumed.      *)
(***************************************************************************)
EXTENDS Integers, Sequences, FiniteSets, TLC

\* ------------------------------------------------------------------ bounds
MaxPathLen == 3      \* longest path / blacklist entry given to fieldIsBlacklisted
MaxBlacklist == 2    \* most entries of a blacklist given to blacklistedFieldExists
MaxFields == 2       \* most keys of a fields object given to blacklistedFieldExists
MaxClock == 2        \* latest instant new Date() reads in a hook

PathChars == {"a", "b", "."}
\* The keys and entries given to blacklistedFieldExists: '', 'a', 'b', 'ab',
\* 'a.b', 'a.' (an exact name, another name, a name that extends 'a' without
\* a dot, a child of 'a', a trailing dot, the empty string).
Keys == {<<>>, <<"a">>, <<"b">>, <<"a", "b">>, <<"a", ".", "b">>, <<"a", ".">>}

\* ----------------------------------------------------------- JS strings
RECURSIVE StringsUpTo(_, _)
StringsUpTo(cs, n) ==
    IF n = 0 THEN {<<>>}
    ELSE LET S == StringsUpTo(cs, n - 1)
         IN  S \cup {Append(s, c) : s \in {t \in S : Len(t) = n - 1}, c \in cs}

\* String.prototype.split('.'): the segments between the dots, [''] for ''.
RECURSIVE split(_)
split(s) ==
    IF s = <<>> THEN << <<>> >>
    ELSE LET rest == split(Tail(s))
         IN  IF Head(s) = "."
             THEN << <<>> >> \o rest
             ELSE << (<<Head(s)>> \o Head(rest)) >> \o Tail(rest)

\* Array.prototype.splice(-1, 1): the array without its last element.
splice(arr) == SubSeq(arr, 1, Len(arr) - 1)

\* Array.prototype.join('.').
RECURSIVE join(_)
join(arr) ==
    IF arr = <<>> THEN <<>>
    ELSE IF Len(arr) = 1 THEN arr[1]
    ELSE arr[1] \o <<".">> \o join(Tail(arr))

\* Array.prototype.indexOf: the first 0-based index of x, or -1.
indexOf(arr, x) ==
    IF \E i \in 1..Len(arr) : arr[i] = x
    THEN (CHOOSE i \in 1..Len(arr) : arr[i] = x /\ \A j \in 1..(i - 1) : arr[j] # x) - 1
    ELSE -1

\* A JS object is the sequence of its [key, value] entries in insertion
\* order; Object.keys lists the keys in that order.
keys(obj) == [i \in 1..Len(obj) |-> obj[i].key]

\* ------------------------------------------------ src/src/utils/index.js
fieldIsBlacklisted_OnlyExact(blacklist, field) ==
    IF field = <<>> THEN FALSE ELSE indexOf(blacklist, field) >= 0

RECURSIVE fieldIsBlacklisted(_, _)
fieldIsBlacklisted(blacklist, field) ==
    IF field = <<>> THEN FALSE
    ELSE LET blacklistDoesApply == indexOf(blacklist, field) >= 0
         IN  IF blacklistDoesApply THEN TRUE
             ELSE LET newPath == splice(split(field))
                      newField == join(newPath)
                  IN  fieldIsBlacklisted(blacklist, newField)

\* Array.prototype.some over the keys, left to right, stopping at the first hit.
RECURSIVE some(_, _)
some(blacklist, ks) ==
    IF ks = <<>> THEN FALSE
    ELSE IF fieldIsBlacklisted(blacklist, Head(ks)) THEN TRUE
    ELSE some(blacklist, Tail(ks))

blacklistedFieldExists_FirstKeyOnly(blacklist, fieldsToCheck) ==
    IF Len(blacklist) = 0 \/ Len(keys(fieldsToCheck)) = 0 THEN FALSE
    ELSE fieldIsBlacklisted(blacklist, Head(keys(fieldsToCheck)))

blacklistedFieldExists(blacklist, fieldsToCheck) ==
    IF Len(blacklist) = 0 \/ Len(keys(fieldsToCheck)) = 0 THEN FALSE
    ELSE some(blacklist, keys(fieldsToCheck))

\* ----------------------------------------- names, values and host objects
\* Field names are strings too; one letter stands for each name.
DEFAULT_CREATED_AT_FIELD == <<"c">>     \* 'createdAt'
DEFAULT_UPDATED_AT_FIELD == <<"u">>     \* 'updatedAt'
SET_OPERATOR == "$set"
SET_ON_INSERT_OPERATOR == "$setOnInsert"
OPTIONS_MEMBER == <<"o">>               \* 'options', a member of every mongoose Schema
FOO == <<"f">>
BAR == <<"b">>
FOO_NESTED == <<"f", ".", "n">>

FieldNames == {DEFAULT_CREATED_AT_FIELD, DEFAULT_UPDATED_AT_FIELD, OPTIONS_MEMBER}

\* The three variants of the plugin kept in the repository.
V_INDEX == "src/index.js"               \* src/src/index.js
V_PART1 == "part_001:1-220"             \* forceCreateHook, findOneAndUpdate
V_TYPED == "part_001:222-306"           \* validateField, no options but the names
Variants == {V_INDEX, V_PART1, V_TYPED}

\* A value written to a field: <<t>> is the Date read at clock t, <<0>> a
\* value of the caller's, <<>> undefined.
USER_VALUE == <<0>>
undefined == <<>>

\* A mongoose Schema: the declared paths with their type ("absent" when not
\* declared) and the add() calls made on it. The declared paths live in
\* schema.paths; schema[name] reads a member of the Schema object itself.
SchemaMembers == {OPTIONS_MEMBER}
NoPaths == [f \in FieldNames |-> "absent"]
UndefinedSchema == [defined |-> FALSE, paths |-> NoPaths, added |-> <<>>]
Schemas ==
    {UndefinedSchema} \cup
    {[defined |-> TRUE,
      paths |-> [NoPaths EXCEPT ![DEFAULT_CREATED_AT_FIELD] = c,
                                ![DEFAULT_UPDATED_AT_FIELD] = u],
      added |-> <<>>] :
        c \in {"absent", "Date", "String"}, u \in {"absent", "Date"}}

Options ==
    [blacklist : {<<>>, <<FOO>>, <<FOO_NESTED>>},
     createdAt : {<<>>, OPTIONS_MEMBER},
     updatedAt : {<<>>},
     shouldUpdateSchema : BOOLEAN,
     disableSaveHook : BOOLEAN,
     forceCreateHook : BOOLEAN,
     disableUpdateHook : BOOLEAN,
     disableUpdateOneHook : BOOLEAN,
     disableFindOneAndUpdate : BOOLEAN]

\* schema[name]: truthy exactly for a member of the Schema object.
schemaMember(schema, name) == name \in SchemaMembers

\* schema.add({ [field]: Date })
schemaAdd(schema, field) ==
    [schema EXCEPT !.paths[field] = "Date", !.added = Append(@, field)]

\* --------------------------------------- src/src/index.js: the constructor
NO_ERROR == ""
SCHEMA_REQUIRED == "Schema is required."
FIELD_UNDEFINED == "Failed to update schema, field is undefined."
UPDATE_OPERATION_UNDEFINED == "updateOperation is undefined."
OPERATOR_UNDEFINED == "operator is undefined."
TYPE_ERROR == "TypeError"
MUST_BE_DATE == "must be of type 'Date'."

\* options.x || DEFAULT
orDefault(x, d) == IF x = <<>> THEN d ELSE x

updateSchema(schema, field) ==
    IF field = <<>>
    THEN [thrown |-> FIELD_UNDEFINED, schema |-> schema]
    ELSE [thrown |-> NO_ERROR, schema |-> schemaAdd(schema, field)]

handleUpdateSchema(schema, createdAt, updatedAt) ==
    LET createdAtFieldExists == schemaMember(schema, createdAt)
        updateFieldExists == schemaMember(schema, updatedAt)
        r1 == IF ~createdAtFieldExists
              THEN updateSchema(schema, createdAt)
              ELSE [thrown |-> NO_ERROR, schema |-> schema]
    IN  IF r1.thrown # NO_ERROR THEN r1
        ELSE IF ~updateFieldExists
        THEN updateSchema(r1.schema, updatedAt)
        ELSE r1

\* What the constructor leaves behind: the error it threw (if any), the
\* schema, and the private fields the hooks capture.
Instance(thrown, schema, options) ==
    [thrown |-> thrown,
     schema |-> schema,
     blacklist |-> options.blacklist,
     createdAt |-> orDefault(options.createdAt, DEFAULT_CREATED_AT_FIELD),
     updatedAt |-> orDefault(options.updatedAt, DEFAULT_UPDATED_AT_FIELD),
     shouldDisableSaveHook |-> options.disableSaveHook,
     shouldForceCreateHook |-> options.forceCreateHook]

constructor_NoSchemaCheck(schema, options) ==
    Instance(NO_ERROR, schema, options)

constructor(schema, options) ==
    IF ~schema.defined
    THEN Instance(SCHEMA_REQUIRED, schema, options)
    ELSE LET this == Instance(NO_ERROR, schema, options)
         IN  IF options.shouldUpdateSchema
             THEN LET r == handleUpdateSchema(schema, this.createdAt, this.updatedAt)
                  IN  [this EXCEPT !.thrown = r.thrown, !.schema = r.schema]
             ELSE this

\* ----------------------- part_001:222-306: the type-validating constructor
validateField(schema, field) ==
    IF schema.paths[field] # "Date" THEN MUST_BE_DATE ELSE NO_ERROR

constructor_typed(schema, options) ==
    IF ~schema.defined
    THEN Instance(TYPE_ERROR, schema, options)     \* undefined.path(...)
    ELSE LET this == Instance(NO_ERROR, schema, options)
             e1 == validateField(schema, this.createdAt)
             e2 == validateField(schema, this.updatedAt)
         IN  [this EXCEPT !.thrown = IF e1 # NO_ERROR THEN e1 ELSE e2]

\* ------------------------------------------------- registering the hooks
\* schema.pre(event, fn): one registration, named by the function given.
pre(event, fn) == <<[event |-> event, fn |-> fn]>>

\* The second argument names the function get...Hook() returns in the variant.
save(options) ==
    LET shouldDisableSaveHook == options.disableSaveHook
    IN  IF shouldDisableSaveHook THEN <<>> ELSE pre("save", "saveFunc")

save_part1(options) == pre("save", "saveFunc_part1")

update_IgnoresOption(options, getUpdateHook) == pre("update", getUpdateHook)

update(options, getUpdateHook) ==
    LET shouldDisableUpdateHook == options.disableUpdateHook
    IN  IF shouldDisableUpdateHook THEN <<>> ELSE pre("update", getUpdateHook)

updateOne(options, getUpdateHook) ==
    LET shouldDisableUpdateOneHook == options.disableUpdateOneHook
    IN  IF shouldDisableUpdateOneHook THEN <<>> ELSE pre("updateOne", getUpdateHook)

findOneAndUpdate(options, getUpdateHook) ==
    LET shouldDisableFindOneAndUpdateHook == options.disableFindOneAndUpdate
    IN  IF shouldDisableFindOneAndUpdateHook THEN <<>>
        ELSE pre("findOneAndUpdate", getUpdateHook)

\* export default (schema, options): the instance and the hooks registered.
exportDefault(v, schema, options) ==
    LET plugin == IF v = V_TYPED THEN constructor_typed(schema, options)
                  ELSE constructor(schema, options)
        hooks == IF v = V_INDEX
                 THEN save(options) \o update(options, "updateFunc")
                      \o updateOne(options, "updateFunc")
                 ELSE IF v = V_PART1
                 THEN save_part1(options) \o update(options, "updateFunc_part1")
                      \o updateOne(options, "updateFunc_part1")
                      \o findOneAndUpdate(options, "updateFunc_part1")
                 ELSE pre("update", "handleUpdate") \o pre("updateOne", "handleUpdate")
                      \o pre("create", "handleInsert") \o pre("save", "handleInsert")
    IN  [plugin |-> plugin,
         pres |-> IF plugin.thrown # NO_ERROR THEN <<>> ELSE hooks]

\* ------------------------------------------------------------ the hooks
\* What one call of a hook leaves behind: the document or the pending
\* update it was bound to, how often it called next, the error it threw,
\* and the clause documents it gave to this.update.
NoFields == [present |-> FALSE, fields |-> <<>>]
UndefinedUpdate == [defined |-> FALSE, set |-> NoFields, setOnInsert |-> NoFields]
Object(fields) == [present |-> TRUE, fields |-> fields]
Entry(k, v) == [key |-> k, value |-> v]

\* mongoose Query#update({}, doc): doc's clauses are merged into the pending
\* update; a key already there keeps its place and takes the new value.
RECURSIVE mergeFields(_, _)
mergeFields(to, from) ==
    IF from = <<>> THEN to
    ELSE LET e == Head(from)
             to1 == IF \E i \in 1..Len(to) : to[i].key = e.key
                    THEN [i \in 1..Len(to) |-> IF to[i].key = e.key THEN e ELSE to[i]]
                    ELSE Append(to, e)
         IN  mergeFields(to1, Tail(from))

mergeClause(to, from) ==
    IF ~from.present THEN to
    ELSE Object(IF to.present THEN mergeFields(to.fields, from.fields) ELSE from.fields)

queryUpdate(pending, doc) ==
    [defined |-> TRUE,
     set |-> mergeClause(pending.set, doc.set),
     setOnInsert |-> mergeClause(pending.setOnInsert, doc.setOnInsert)]

getUpdateFields_NoThrow(updateOperation, operator) ==
    [thrown |-> NO_ERROR,
     value |-> IF operator = SET_OPERATOR THEN updateOperation.set
               ELSE updateOperation.setOnInsert]

getUpdateFields(updateOperation, operator) ==
    IF ~updateOperation.defined
    THEN [thrown |-> UPDATE_OPERATION_UNDEFINED, value |-> NoFields]
    ELSE IF operator = ""
    THEN [thrown |-> OPERATOR_UNDEFINED, value |-> NoFields]
    ELSE [thrown |-> NO_ERROR,
          value |-> IF operator = SET_OPERATOR THEN updateOperation.set
                    ELSE updateOperation.setOnInsert]

stamp_CreatedOnEverySave(doc, createdAtField, updatedAtField, now) ==
    [doc EXCEPT !.fields[createdAtField] = <<now>>,
                !.fields[updatedAtField] = <<now>>]

\* The document after the assignments of the save hook.
stamp(doc, createdAtField, updatedAtField, now) ==
    IF doc.isNew
    THEN [doc EXCEPT !.fields[createdAtField] = <<now>>,
                     !.fields[updatedAtField] = <<now>>]
    ELSE [doc EXCEPT !.fields[updatedAtField] = <<now>>]

saveFunc_ModifiedOnly(this, doc, now) ==
    [doc |-> [doc EXCEPT !.fields[this.updatedAt] = <<now>>],
     nextCalls |-> 1, thrown |-> NO_ERROR]

saveFunc(this, doc, now) ==
    [doc |-> stamp(doc, this.createdAt, this.updatedAt, now),
     nextCalls |-> 1, thrown |-> NO_ERROR]

canEnterSaveFunction_NewAlwaysEnters(shouldDisableSaveHook, shouldForceCreateHook, isNew) ==
    ~(shouldDisableSaveHook /\ ~isNew)

canEnterSaveFunction(shouldDisableSaveHook, shouldForceCreateHook, isNew) ==
    ~(shouldDisableSaveHook /\ (~shouldForceCreateHook \/ ~isNew))

saveFunc_part1(this, doc, now) ==
    IF ~canEnterSaveFunction(this.shouldDisableSaveHook, this.shouldForceCreateHook,
                             doc.isNew)
    THEN [doc |-> doc, nextCalls |-> 1, thrown |-> NO_ERROR]
    ELSE [doc |-> stamp(doc, this.createdAt, this.updatedAt, now),
          nextCalls |-> 1, thrown |-> NO_ERROR]

\* The clause document the update hook gives to this.update.
clauses(this, now) ==
    [set |-> Object(<<Entry(this.updatedAt, <<now>>)>>),
     setOnInsert |-> Object(<<Entry(this.createdAt, <<now>>),
                              Entry(this.updatedAt, <<now>>)>>)]

clauses_part1(this, now) ==
    [set |-> Object(<<Entry(this.updatedAt, <<now>>)>>),
     setOnInsert |-> Object(<<Entry(this.createdAt, <<now>>)>>)]

isBlacklisted_SetOnly(blacklist, currentSetFields, currentSetOnInsertFields) ==
    currentSetFields.present /\ blacklistedFieldExists(blacklist, currentSetFields.fields)

\* setFieldsAreBlacklisted || setOnInsertFieldsAreBlacklisted
isBlacklisted(blacklist, currentSetFields, currentSetOnInsertFields) ==
    LET setFieldsAreBlacklisted ==
            currentSetFields.present
            /\ blacklistedFieldExists(blacklist, currentSetFields.fields)
        setOnInsertFieldsAreBlacklisted ==
            currentSetOnInsertFields.present
            /\ blacklistedFieldExists(blacklist, currentSetOnInsertFields.fields)
    IN  setFieldsAreBlacklisted \/ setOnInsertFieldsAreBlacklisted

\* The body of updateFunc, common to both variants but for the clauses.
updateHook(this, pending, doc) ==
    LET currentSetFields == getUpdateFields(pending, SET_OPERATOR)
        currentSetOnInsertFields == getUpdateFields(pending, SET_ON_INSERT_OPERATOR)
    IN  IF currentSetFields.thrown # NO_ERROR
        THEN [update |-> pending, nextCalls |-> 0,
              thrown |-> currentSetFields.thrown, updateCalls |-> <<>>]
        ELSE IF currentSetOnInsertFields.thrown # NO_ERROR
        THEN [update |-> pending, nextCalls |-> 0,
              thrown |-> currentSetOnInsertFields.thrown, updateCalls |-> <<>>]
        ELSE IF isBlacklisted(this.blacklist, currentSetFields.value,
                              currentSetOnInsertFields.value)
        THEN [update |-> pending, nextCalls |-> 1,
              thrown |-> NO_ERROR, updateCalls |-> <<>>]
        ELSE [update |-> queryUpdate(pending, doc), nextCalls |-> 1,
              thrown |-> NO_ERROR, updateCalls |-> <<doc>>]

updateFunc(this, pending, now) == updateHook(this, pending, clauses(this, now))

updateFunc_part1(this, pending, now) == updateHook(this, pending, clauses_part1(this, now))

\* part_001:222-306 registers handleUpdate and handleInsert themselves, not
\* the functions they return: called as a hook, each builds its closure and
\* returns it, touching nothing and never calling next.
handleUpdate(this, pending, now) ==
    [update |-> pending, nextCalls |-> 0, thrown |-> NO_ERROR, updateCalls |-> <<>>]

handleInsert(this, doc, now) ==
    [doc |-> doc, nextCalls |-> 0, thrown |-> NO_ERROR]

\* --------------------------------------------------------------- state
VARIABLES
    called,        \* the matcher function last called, "none" before any call
    blacklistArg,  \* its blacklist argument
    fieldsArg,     \* its second argument: a path, or a fields object
    result,        \* what it returned
    pc,            \* "start", then "attached" or "failed" (the plugin threw)
    variant,       \* the variant of the plugin attached
    options,       \* the options given to the plugin
    schema0,       \* the schema as given to the plugin
    plugin,        \* the instance: error thrown, schema, captured fields
    pres,          \* the pre-hooks registered on the schema, in order
    op,            \* the last save or update of the host: event, hook run, now
    doc0,          \* the document as the last save found it
    doc,           \* the document as the save hook left it
    pending0,      \* the pending update as the caller requested it
    pending,       \* the pending update as the update hook left it
    nextCalls,     \* how often the last hook called its continuation
    hookThrown,    \* the error the last hook threw, NO_ERROR if none
    updateCalls    \* the clause documents the last hook gave to this.update

mvars == <<called, blacklistArg, fieldsArg, result>>
avars == <<pc, variant, options, schema0, plugin, pres>>
hvars == <<op, doc0, doc, pending0, pending, nextCalls, hookThrown, updateCalls>>
vars == <<called, blacklistArg, fieldsArg, result,
          pc, variant, options, schema0, plugin, pres,
          op, doc0, doc, pending0, pending, nextCalls, hookThrown, updateCalls>>

\* The documents the host saves: a new one, and one stored earlier.
NewDocument == [isNew |-> TRUE, fields |-> [f \in FieldNames |-> undefined]]
StoredDocument == [isNew |-> FALSE, fields |-> [f \in FieldNames |-> USER_VALUE]]
Documents == {NewDocument, StoredDocument}

\* The updates the caller requests; getUpdate() may also yield undefined.
SetChoices ==
    {NoFields, Object(<<>>),
     Object(<<Entry(FOO, USER_VALUE), Entry(BAR, USER_VALUE)>>),
     Object(<<Entry(BAR, USER_VALUE)>>),
     Object(<<Entry(FOO_NESTED, USER_VALUE)>>),
     Object(<<Entry(DEFAULT_UPDATED_AT_FIELD, USER_VALUE)>>)}
SetOnInsertChoices ==
    {NoFields, Object(<<Entry(FOO, USER_VALUE)>>),
     Object(<<Entry(DEFAULT_CREATED_AT_FIELD, USER_VALUE)>>)}
Updates ==
    {UndefinedUpdate} \cup
    {[defined |-> TRUE, set |-> a, setOnInsert |-> b] :
        a \in SetChoices, b \in SetOnInsertChoices}
UpdateEvents == {"update", "updateOne", "findOneAndUpdate"}

NoOptions ==
    [blacklist |-> <<>>, createdAt |-> <<>>, updatedAt |-> <<>>,
     shouldUpdateSchema |-> FALSE,
     disableSaveHook |-> FALSE, forceCreateHook |-> FALSE,
     disableUpdateHook |-> FALSE, disableUpdateOneHook |-> FALSE,
     disableFindOneAndUpdate |-> FALSE]

Init ==
    /\ called = "none"
    /\ blacklistArg = <<>>
    /\ fieldsArg = <<>>
    /\ result = FALSE
    /\ pc = "start"
    /\ variant = "none"
    /\ options = NoOptions
    /\ schema0 = UndefinedSchema
    /\ plugin = Instance(NO_ERROR, UndefinedSchema, NoOptions)
    /\ pres = <<>>
    /\ op = [event |-> "none", fn |-> "none", now |-> 0]
    /\ doc0 = NewDocument
    /\ doc = NewDocument
    /\ pending0 = UndefinedUpdate
    /\ pending = UndefinedUpdate
    /\ nextCalls = 0
    /\ hookThrown = NO_ERROR
    /\ updateCalls = <<>>

\* ------------------------------------------------------- matcher calls
Paths == StringsUpTo(PathChars, MaxPathLen)

SeqsUpTo(S, n) == UNION {[1..k -> S] : k \in 0..n}
Blacklists == SeqsUpTo(Keys, MaxBlacklist)
\* Fields objects: distinct keys, every insertion order.
FieldObjects ==
    {[i \in 1..Len(ks) |-> [key |-> ks[i], value |-> USER_VALUE]] :
        ks \in {s \in SeqsUpTo(Keys, MaxFields) :
                   \A i, j \in 1..Len(s) : i # j => s[i] # s[j]}}

CallFieldIsBlacklisted ==
    /\ called = "none"
    /\ \E B \in Paths, P \in Paths :
       /\ called' = "fieldIsBlacklisted"
       /\ blacklistArg' = <<B>>
       /\ fieldsArg' = P
       /\ result' = fieldIsBlacklisted(<<B>>, P)
    /\ UNCHANGED <<avars, hvars>>

CallBlacklistedFieldExists ==
    /\ called = "none"
    /\ \E bl \in Blacklists, fields \in FieldObjects :
       /\ called' = "blacklistedFieldExists"
       /\ blacklistArg' = bl
       /\ fieldsArg' = fields
       /\ result' = blacklistedFieldExists(bl, fields)
    /\ UNCHANGED <<avars, hvars>>

MatchNext == CallFieldIsBlacklisted \/ CallBlacklistedFieldExists

MatchSpec == Init /\ [][MatchNext]_vars

\* ------------------------------------------------------------ the plugin
\* schema.plugin(HappyMongooseTimestamps, options)
Plugin ==
    /\ pc = "start"
    /\ \E v \in Variants, s \in Schemas, o \in Options :
         LET r == exportDefault(v, s, o)
         IN  /\ variant' = v
             /\ options' = o
             /\ schema0' = s
             /\ plugin' = r.plugin
             /\ pres' = r.pres
             /\ pc' = IF r.plugin.thrown = NO_ERROR THEN "attached" ELSE "failed"
    /\ UNCHANGED <<mvars, hvars>>

\* The hooks registered for an event, in the order the host runs them.
hooksFor(event) == SelectSeq(pres, LAMBDA h : h.event = event)

callSaveHook(fn, d, now) ==
    IF fn = "saveFunc" THEN saveFunc(plugin, d, now)
    ELSE IF fn = "saveFunc_part1" THEN saveFunc_part1(plugin, d, now)
    ELSE handleInsert(plugin, d, now)

callUpdateHook(fn, u, now) ==
    IF fn = "updateFunc" THEN updateFunc(plugin, u, now)
    ELSE IF fn = "updateFunc_part1" THEN updateFunc_part1(plugin, u, now)
    ELSE handleUpdate(plugin, u, now)

\* The hooks keep no state of their own and the instance is never written
\* after the constructor, so a behaviour is one attachment followed by one
\* save or update; clock is the instant new Date() reads in the hook.

\* document.save(): the host runs the pre-save hook, if one is registered.
Save ==
    /\ pc = "attached"
    /\ op.event = "none"
    /\ \E d \in Documents, clock \in 1..MaxClock :
         LET hooks == hooksFor("save")
             fn == IF hooks = <<>> THEN "none" ELSE hooks[1].fn
             r == IF hooks = <<>>
                  THEN [doc |-> d, nextCalls |-> 0, thrown |-> NO_ERROR]
                  ELSE callSaveHook(fn, d, clock)
         IN  /\ op' = [event |-> "save", fn |-> fn, now |-> clock]
             /\ doc0' = d
             /\ doc' = r.doc
             /\ nextCalls' = r.nextCalls
             /\ hookThrown' = r.thrown
    /\ pending0' = UndefinedUpdate
    /\ pending' = UndefinedUpdate
    /\ updateCalls' = <<>>
    /\ UNCHANGED <<mvars, avars>>

\* Model.update / updateOne / findOneAndUpdate: the host runs the event's
\* pre-hook, if one is registered, bound to the query.
Update ==
    /\ pc = "attached"
    /\ op.event = "none"
    /\ \E event \in UpdateEvents, u \in Updates, clock \in 1..MaxClock :
         LET hooks == hooksFor(event)
             fn == IF hooks = <<>> THEN "none" ELSE hooks[1].fn
             r == IF hooks = <<>>
                  THEN [update |-> u, nextCalls |-> 0, thrown |-> NO_ERROR,
                        updateCalls |-> <<>>]
                  ELSE callUpdateHook(fn, u, clock)
         IN  /\ op' = [event |-> event, fn |-> fn, now |-> clock]
             /\ pending0' = u
             /\ pending' = r.update
             /\ nextCalls' = r.nextCalls
             /\ hookThrown' = r.thrown
             /\ updateCalls' = r.updateCalls
    /\ doc0' = NewDocument
    /\ doc' = NewDocument
    /\ UNCHANGED <<mvars, avars>>

Next == Plugin \/ Save \/ Update

Spec == Init /\ [][Next]_vars

\* ------------------------------------------- one document over its life
\* The hooks run before the write they precede: next() hands over to the
\* host, which runs its remaining hooks and dispatches the write. A document
\* is new (this.isNew) until a save has stored it, so a save that is not
\* carried through leaves it new. An update is applied by the store: $set
\* to the document it matches; with upsert and no document yet, $set and
\* $setOnInsert to the one it inserts. The caller leaves the two timestamp
\* fields to the plugin.
DocSchema ==
    [defined |-> TRUE,
     paths |-> [NoPaths EXCEPT ![DEFAULT_CREATED_AT_FIELD] = "Date",
                               ![DEFAULT_UPDATED_AT_FIELD] = "Date"],
     added |-> <<>>]

DocVariants == {V_INDEX, V_PART1}

DocOptions ==
    {o \in Options :
        /\ o.blacklist \in {<<>>, <<FOO>>}
        /\ o.createdAt = <<>>
        /\ ~o.shouldUpdateSchema
        /\ ~o.disableUpdateOneHook
        /\ ~o.disableFindOneAndUpdate}

DocUpdates ==
    {UndefinedUpdate} \cup
    {[defined |-> TRUE, set |-> a, setOnInsert |-> b] :
        a \in {Object(<<Entry(BAR, USER_VALUE)>>),
                Object(<<Entry(FOO, USER_VALUE), Entry(BAR, USER_VALUE)>>)},
        b \in {NoFields}} \cup
    {[defined |-> TRUE, set |-> NoFields,
      setOnInsert |-> Object(<<Entry(BAR, USER_VALUE)>>)]}
DocEvents == {"update", "findOneAndUpdate"}

\* The instants new Date() may read after one that read t.
Later(t) == {c \in 1..MaxClock : c >= t}

\* The entries of a clause written to the fields of a document; keys the
\* model does not follow are dropped.
RECURSIVE applyFields(_, _)
applyFields(fields, entries) ==
    IF entries = <<>> THEN fields
    ELSE LET e == Head(entries)
         IN  applyFields(IF e.key \in DOMAIN fields
                         THEN [fields EXCEPT ![e.key] = e.value]
                         ELSE fields,
                         Tail(entries))

\* The document after the store applied update u to it.
write(d, u, upsert) ==
    IF ~u.defined THEN d
    ELSE IF ~d.isNew
    THEN [d EXCEPT !.fields = applyFields(@, u.set.fields)]
    ELSE IF upsert /\ d = NewDocument
    THEN [isNew |-> FALSE,
          fields |-> applyFields(applyFields(d.fields, u.set.fields),
                                 u.setOnInsert.fields)]
    ELSE d

DocInit ==
    /\ called = "none"
    /\ blacklistArg = <<>>
    /\ fieldsArg = <<>>
    /\ result = FALSE
    /\ pc = "attached"
    /\ variant \in DocVariants
    /\ options \in DocOptions
    /\ schema0 = DocSchema
    /\ plugin = exportDefault(variant, schema0, options).plugin
    /\ pres = exportDefault(variant, schema0, options).pres
    /\ op = [event |-> "none", fn |-> "none", now |-> 0]
    /\ doc0 = NewDocument
    /\ doc = NewDocument
    /\ pending0 = UndefinedUpdate
    /\ pending = UndefinedUpdate
    /\ nextCalls = 0
    /\ hookThrown = NO_ERROR
    /\ updateCalls = <<>>

\* document.save() on the document: the pre-save hook runs on it as it is;
\* the save then stores it, or is not carried through.
DocSave ==
    /\ pc = "attached"
    /\ \E clock \in Later(op.now), stored \in BOOLEAN :
         LET hooks == hooksFor("save")
             fn == IF hooks = <<>> THEN "none" ELSE hooks[1].fn
             r == IF hooks = <<>>
                  THEN [doc |-> doc, nextCalls |-> 0, thrown |-> NO_ERROR]
                  ELSE callSaveHook(fn, doc, clock)
         IN  /\ op' = [event |-> "save", fn |-> fn, now |-> clock]
             /\ doc0' = doc
             /\ doc' = [r.doc EXCEPT !.isNew = IF stored THEN FALSE ELSE @]
             /\ nextCalls' = r.nextCalls
             /\ hookThrown' = r.thrown
    /\ pending0' = UndefinedUpdate
    /\ pending' = UndefinedUpdate
    /\ updateCalls' = <<>>
    /\ UNCHANGED <<mvars, avars>>

\* Model.update / updateOne / findOneAndUpdate aimed at the document: the
\* pre-hook runs on the query; if it called next and threw nothing, the
\* store applies the update as the hook left it, or the write fails.
DocUpdate ==
    /\ pc = "attached"
    /\ \E event \in DocEvents, u \in DocUpdates, clock \in Later(op.now),
          mode \in {"failed", "update", "upsert"} :
         LET hooks == hooksFor(event)
             fn == IF hooks = <<>> THEN "none" ELSE hooks[1].fn
             r == IF hooks = <<>>
                  THEN [update |-> u, nextCalls |-> 0, thrown |-> NO_ERROR,
                        updateCalls |-> <<>>]
                  ELSE callUpdateHook(fn, u, clock)
             dispatched == hooks = <<>> \/ (r.thrown = NO_ERROR /\ r.nextCalls = 1)
         IN  /\ op' = [event |-> event, fn |-> fn, now |-> clock]
             /\ pending0' = u
             /\ pending' = r.update
             /\ nextCalls' = r.nextCalls
             /\ hookThrown' = r.thrown
             /\ updateCalls' = r.updateCalls
             /\ doc0' = doc
             /\ doc' = IF dispatched /\ mode # "failed"
                       THEN write(doc, r.update, mode = "upsert")
                       ELSE doc
    /\ UNCHANGED <<mvars, avars>>

DocNext == DocSave \/ DocUpdate

DocSpec == DocInit /\ [][DocNext]_vars

\* ================================================================ claims
StartsWith(s, prefix) ==
    Len(s) >= Len(prefix) /\ SubSeq(s, 1, Len(prefix)) = prefix

\* P equals B, or P starts with B followed by '.'
MatchesEntry(B, P) == P = B \/ StartsWith(P, B \o <<".">>)

\* C1, as claimed: for every entry B and path P, fieldIsBlacklisted([B], P)
\* is true iff P equals B or P starts with B followed by '.'.
C1_MatchIffEqualOrDescendant ==
    called = "fieldIsBlacklisted" =>
        result = MatchesEntry(blacklistArg[1], fieldsArg)

\* C1, amended: the equivalence holds for every non-empty entry B (so an
\* entry that is a strict descendant of P never matches); for the empty
\* entry '' the matcher returns false for every path.
C1_MatchIffEqualOrDescendantOfNonEmpty ==
    called = "fieldIsBlacklisted" =>
        LET B == blacklistArg[1]
            P == fieldsArg
        IN  /\ B # <<>> => result = MatchesEntry(B, P)
            /\ B = <<>> => result = FALSE
            /\ StartsWith(B, P \o <<".">>) => result = FALSE

C1_Witness ==
    /\ called = "fieldIsBlacklisted"
    /\ blacklistArg = << <<"a">> >>
    /\ fieldsArg = <<"a", ".", "b">>
    /\ result = TRUE

Bijections(n) ==
    {f \in [1..n -> 1..n] : \A i, j \in 1..n : i # j => f[i] # f[j]}

\* C2: blacklistedFieldExists is true iff the matcher holds for some key of
\* fields; it is false for an empty blacklist and for a fields object with
\* no keys; and it is the same for every order of the keys.
C2_SomeKeyInAnyOrder ==
    called = "blacklistedFieldExists" =>
        /\ result = (\E i \in 1..Len(fieldsArg) :
                        fieldIsBlacklisted(blacklistArg, fieldsArg[i].key))
        /\ Len(blacklistArg) = 0 => result = FALSE
        /\ Len(fieldsArg) = 0 => result = FALSE
        /\ \A f \in Bijections(Len(fieldsArg)) :
              blacklistedFieldExists(blacklistArg,
                  [i \in 1..Len(fieldsArg) |-> fieldsArg[f[i]]]) = result

C2_Witness ==
    /\ called = "blacklistedFieldExists"
    /\ Len(fieldsArg) = 2
    /\ ~fieldIsBlacklisted(blacklistArg, fieldsArg[1].key)
    /\ fieldIsBlacklisted(blacklistArg, fieldsArg[2].key)
    /\ result = TRUE

\* The variants whose hooks come from getSaveHook / getUpdateHook and which
\* read the disable options: src/src/index.js and part_001:1-220.
HookVariant == variant \in {V_INDEX, V_PART1}
UpdateHookRan == op.fn \in {"updateFunc", "updateFunc_part1"}
SaveHookRan == op.fn \in {"saveFunc", "saveFunc_part1"}

KeysOf(clause) == {clause.fields[i].key : i \in 1..Len(clause.fields)}
EntriesOf(clause) == {clause.fields[i] : i \in 1..Len(clause.fields)}

\* Some key of the requested $set or $setOnInsert is covered by the blacklist.
Covered ==
    \E k \in KeysOf(pending0.set) \cup KeysOf(pending0.setOnInsert) :
        fieldIsBlacklisted(plugin.blacklist, k)

\* The pending $set carries the modified-field with the instant of this call.
Stamped == Entry(plugin.updatedAt, <<op.now>>) \in EntriesOf(pending.set)

\* C3: an update hook bound to a pending write adds timestamp clauses iff no
\* key of its $set and no key of its $setOnInsert is covered (an absent map
\* has no keys); when a key is covered the write is left exactly as requested.
C3_StampIffNotCovered ==
    UpdateHookRan /\ pending0.defined =>
        /\ (updateCalls # <<>>) <=> ~Covered
        /\ Stamped <=> ~Covered
        /\ Covered => pending = pending0

C3_Witness ==
    /\ UpdateHookRan
    /\ plugin.blacklist = <<FOO>>
    /\ pending0.set = NoFields
    /\ pending0.setOnInsert = Object(<<Entry(FOO, USER_VALUE)>>)
    /\ pending = pending0
    /\ nextCalls = 1

\* C4: when not covered, the hook adds exactly a $set of the modified-field
\* and a $setOnInsert of the created-field, both to the instant of the call,
\* and every write the caller requested is still there with its value.
C4_ExactlyTwoClausesAndFrame ==
    UpdateHookRan /\ pending0.defined /\ ~Covered =>
        /\ updateCalls =
             << [set |-> Object(<<Entry(plugin.updatedAt, <<op.now>>)>>),
                 setOnInsert |-> Object(<<Entry(plugin.createdAt, <<op.now>>)>>)] >>
        /\ EntriesOf(pending0.set) \subseteq EntriesOf(pending.set)
        /\ EntriesOf(pending0.setOnInsert) \subseteq EntriesOf(pending.setOnInsert)

\* C5: with disableSaveHook and forceCreateHook both true, the save of a new
\* document sets the created-field and the modified-field to one instant.
C5_ForcedCreateStampsBoth ==
    /\ HookVariant
    /\ options.disableSaveHook /\ options.forceCreateHook
    /\ op.event = "save" /\ doc0.isNew
    => /\ doc.fields[plugin.createdAt] = <<op.now>>
       /\ doc.fields[plugin.updatedAt] = <<op.now>>

\* C6: with disableSaveHook true and forceCreateHook false, no save changes
\* the document, and the save goes on: no hook is registered, or the hook
\* called next exactly once and threw nothing.
C6_DisabledSaveHookLeavesDocument ==
    /\ HookVariant
    /\ options.disableSaveHook /\ ~options.forceCreateHook
    /\ op.event = "save"
    => /\ doc = doc0
       /\ hookThrown = NO_ERROR
       /\ op.fn = "none" \/ nextCalls = 1

C6_Witness ==
    /\ variant = V_PART1
    /\ options.disableSaveHook /\ ~options.forceCreateHook
    /\ op.fn = "saveFunc_part1"
    /\ doc0.isNew
    /\ doc = doc0
    /\ nextCalls = 1

disabled(event) ==
    IF event = "update" THEN options.disableUpdateHook
    ELSE IF event = "updateOne" THEN options.disableUpdateOneHook
    ELSE options.disableFindOneAndUpdate

\* C7, as claimed: for each of update, updateOne and findOneAndUpdate the
\* plugin registers exactly one pre-hook when the event's disable option is
\* false, and none when it is true.
C7_OneHookPerEnabledEvent ==
    pc = "attached" /\ HookVariant =>
        \A event \in UpdateEvents :
            Len(hooksFor(event)) = IF disabled(event) THEN 0 ELSE 1

\* C7, amended: that holds for update and updateOne, and for findOneAndUpdate
\* in part_001:1-220; src/src/index.js registers no findOneAndUpdate hook
\* whatever the option. Each count depends on the event's own option alone.
C7_OneHookPerEnabledEventButFindOneAndUpdate ==
    pc = "attached" /\ HookVariant =>
        /\ \A event \in {"update", "updateOne"} :
              Len(hooksFor(event)) = IF disabled(event) THEN 0 ELSE 1
        /\ variant = V_PART1 =>
              Len(hooksFor("findOneAndUpdate")) =
                 IF disabled("findOneAndUpdate") THEN 0 ELSE 1
        /\ variant = V_INDEX => Len(hooksFor("findOneAndUpdate")) = 0

C7_Witness ==
    /\ pc = "attached"
    /\ variant = V_PART1
    /\ options.disableUpdateOneHook
    /\ ~options.disableUpdateHook /\ ~options.disableFindOneAndUpdate
    /\ Len(hooksFor("update")) = 1
    /\ Len(hooksFor("updateOne")) = 0
    /\ Len(hooksFor("findOneAndUpdate")) = 1

\* C8: attaching the plugin without a schema throws, and then no hook is
\* registered and no field has been added to a schema.
C8_NoSchemaNoAttachment ==
    pc # "start" /\ ~schema0.defined =>
        /\ pc = "failed"
        /\ plugin.thrown # NO_ERROR
        /\ pres = <<>>
        /\ plugin.schema.added = <<>>

C8_Witness ==
    /\ pc = "failed"
    /\ ~schema0.defined
    /\ variant = V_INDEX
    /\ options.shouldUpdateSchema
    /\ ~options.disableSaveHook
    /\ plugin.thrown = SCHEMA_REQUIRED
    /\ pres = <<>>

\* C9, as claimed: every call of a hook built by getSaveHook or getUpdateHook
\* calls next exactly once and throws nothing, also when getUpdate() yields
\* no descriptor; an attachment that throws has registered no hook.
C9_NextExactlyOnce ==
    /\ SaveHookRan \/ UpdateHookRan => nextCalls = 1 /\ hookThrown = NO_ERROR
    /\ pc = "failed" => pres = <<>>

\* C9, amended: the save hook always, and the update hook whenever
\* getUpdate() yields a descriptor, calls next exactly once and throws
\* nothing; when getUpdate() yields no descriptor the update hook throws
\* 'updateOperation is undefined.' inside the call, without calling next and
\* without touching the pending write. An attachment that throws has
\* registered no hook.
C9_NextExactlyOnceUnlessNoDescriptor ==
    /\ SaveHookRan => nextCalls = 1 /\ hookThrown = NO_ERROR
    /\ UpdateHookRan /\ pending0.defined => nextCalls = 1 /\ hookThrown = NO_ERROR
    /\ UpdateHookRan /\ ~pending0.defined =>
          /\ hookThrown = UPDATE_OPERATION_UNDEFINED
          /\ nextCalls = 0
          /\ pending = pending0
          /\ updateCalls = <<>>
    /\ pc = "failed" => pres = <<>>

C9_Witness ==
    /\ op.event = "findOneAndUpdate"
    /\ op.fn = "updateFunc_part1"
    /\ ~pending0.defined
    /\ hookThrown = UPDATE_OPERATION_UNDEFINED
    /\ nextCalls = 0

\* C10: with shouldUpdateSchema, attachment adds a Date definition for the
\* created-field and the modified-field exactly when the field is not yet
\* declared, and leaves a declared field's definition alone; without it,
\* attachment adds nothing.
C10_AddsExactlyUndeclaredFields ==
    pc = "attached" /\ HookVariant =>
        IF options.shouldUpdateSchema
        THEN \A f \in {plugin.createdAt, plugin.updatedAt} :
                /\ (\E i \in 1..Len(plugin.schema.added) : plugin.schema.added[i] = f)
                      <=> schema0.paths[f] = "absent"
                /\ schema0.paths[f] = "absent" => plugin.schema.paths[f] = "Date"
                /\ schema0.paths[f] # "absent" =>
                      plugin.schema.paths[f] = schema0.paths[f]
        ELSE /\ plugin.schema.added = <<>>
             /\ plugin.schema.paths = schema0.paths

IsSet(d, f) == d.fields[f] # undefined
NotEarlier(d) ==
    IsSet(d, plugin.createdAt) /\ IsSet(d, plugin.updatedAt) =>
        d.fields[plugin.updatedAt][1] >= d.fields[plugin.createdAt][1]

\* C12, as claimed: over any sequence of saves and updates of one document
\* under a non-decreasing clock, a created-field that has been set never
\* changes again, and whenever both fields are set the modified-field is
\* not earlier than the created-field.
C12_CreatedNeverChangesOnceSet ==
    [][/\ IsSet(doc, plugin.createdAt) =>
             doc'.fields[plugin.createdAt] = doc.fields[plugin.createdAt]
       /\ NotEarlier(doc')]_vars

\* C12, amended: the created-field of a stored document never changes
\* again; it is written only by a save of a document that is still new
\* (this.isNew), to the instant that save read, or by the $setOnInsert
\* clause when an upsert inserts; a new document whose save did not store
\* it is stamped again by the next save. Whenever both fields are set the
\* modified-field is not earlier than the created-field.
C12_CreatedNeverChangesOnceStored ==
    [][/\ ~doc.isNew =>
             doc'.fields[plugin.createdAt] = doc.fields[plugin.createdAt]
       /\ doc'.fields[plugin.createdAt] # doc.fields[plugin.createdAt] =>
             /\ doc.isNew
             /\ doc'.fields[plugin.createdAt] = <<op'.now>>
             /\ \/ op'.event = "save"
                \/ /\ ~doc'.isNew
                   /\ Entry(plugin.createdAt, <<op'.now>>)
                         \in EntriesOf(pending'.setOnInsert)
       /\ NotEarlier(doc')]_vars

\* A stored document stamped at 1 on its creation and at 2 by a later hook.
C12_Witness ==
    /\ ~doc.isNew
    /\ doc0.fields[plugin.createdAt] = <<1>>
    /\ doc.fields[plugin.createdAt] = <<1>>
    /\ doc.fields[plugin.updatedAt] = <<2>>
    /\ op.now = 2

====
